---- MODULE Spec2Model ----
(***************************************************************************)
(* Model of main.py (Church Community Bot): the in-memory admin set and    *)
(* its admins.json file, the users.json store, the groups.json list, the   *)
(* per-user pending quiz answer, and one action per command handler.       *)
(*                                                                         *)
(* The Application is built without concurrent_updates, so updates are     *)
(* handled one after another; every handler below is one atomic action.    *)
(***************************************************************************)
EXTENDS Integers, Sequences, FiniteSets, TLC

(* ----------------------------- bounds --------------------------------- *)
\* quiz_score and len(prayer_requests) grow without limit in the program
MaxScore == 2
MaxPrayers == 1

(* ----------------------------- domains -------------------------------- *)
\* Telegram user ids that send updates, and the ids an admin command may name.
Uids == {1, 2}
AdminTargets == {1, 2, 3}
\* chat ids of group chats; 0 stands for a private chat
GroupChats == {10, 11}
PrivateChat == 0
\* the chats most updates come from, and every chat
Chats == {PrivateChat, 10}
AllChats == GroupChats \cup {PrivateChat}
\* datetime.utcnow() values
Times == {0}
None == "None"
\* update.message.reply_to_message absent
NoReplyTo == 0

\* Telegram profiles (username, first_name, last_name) an update may carry
Profiles == { [username |-> None, first_name |-> "F", last_name |-> ""],
              [username |-> "u", first_name |-> "G", last_name |-> ""] }
\* contents of data/quizzes.json: the "answer" field of each quiz
QUIZZES == <<"b">>
\* first argument of /answer
AnswerArgs == {"a", "B"}
\* text of a prayer request
PrayerTexts == {"p"}

\* A Python value of config.ADMIN_IDS: an int, or a numeric str such as "7".
PyI(n) == [t |-> "int", v |-> n]
PyS(n) == [t |-> "str", v |-> n]
\* int(x): identity on ints, parses a numeric string
PyInt(x) == x.v

\* the configurations of config.ADMIN_IDS explored
ConfigChoices == { <<PyI(1)>>, <<PyS(1)>> }
\* config.GROUP_IDS
GROUP_IDS == <<20, 10>>

\* command arguments: none, a non-numeric word, or a decimal number
NoArg == [k |-> "none", v |-> 0]
BadArg == [k |-> "bad", v |-> 0]
NumArg(n) == [k |-> "num", v |-> n]
IdArgs == {NoArg, BadArg} \cup {NumArg(n) : n \in AdminTargets}

VARIABLES
    ADMIN_IDS,   \* config.ADMIN_IDS (fixed after start-up)
    ADMINS,      \* the module-level set ADMINS
    adminsFile,  \* contents of data/admins.json
    users,       \* contents of data/users.json, in key order
    groups,      \* contents of data/groups.json
    pending,     \* context.user_data["answer"] per user (None if absent)
    last         \* the update handled last: handler, sender, reply, output

vars == <<ADMIN_IDS, ADMINS, adminsFile, users, groups, pending, last>>

(* ----------------------------- helpers -------------------------------- *)
Range(s) == {s[i] : i \in 1..Len(s)}

Min(S) == CHOOSE x \in S : \A y \in S : x <= y

RECURSIVE sorted(_)
\* sorted(S) for a set of ints, ascending
sorted(S) == IF S = {} THEN <<>> ELSE <<Min(S)>> \o sorted(S \ {Min(S)})

\* load_json(path, default): the parsed file, or default when reading fails
load_json(content, ok, default) == IF ok THEN content ELSE default

\* set(config.ADMIN_IDS): the configured values as they are, untyped-compared
base_set == Range(ADMIN_IDS)

\* x in base, for an int x and base = set(config.ADMIN_IDS): 7 == "7" is False
in_base(x) == PyI(x) \in base_set

load_admins(cfg, file, ok) ==
    {PyInt(cfg[i]) : i \in 1..Len(cfg)} \cup Range(load_json(file, ok, <<>>))

\* persist_admins(): the file contents written for the admin set A
persist_admins(A) == sorted({a \in A : ~in_base(a)})

is_admin(uid) == uid \in ADMINS

\* what the last update was and what the bot answered: out is the body of the
\* reply (a ranking, a list of admins, the sends of a broadcast)
Reply(op, caller, reply) == [op |-> op, caller |-> caller, reply |-> reply, out |-> <<>>]
ReplyOut(op, caller, reply, out) == [op |-> op, caller |-> caller, reply |-> reply, out |-> out]

(* ------------------------------ Init ---------------------------------- *)
Init ==
    /\ ADMIN_IDS \in ConfigChoices
    /\ \E E \in SUBSET {2, 3} : adminsFile = sorted(E)
    /\ \E ok \in BOOLEAN : ADMINS = load_admins(ADMIN_IDS, adminsFile, ok)
    /\ users = <<>>
    /\ groups = <<>>
    /\ pending = [u \in Uids |-> None]
    /\ last = Reply("init", 0, "")

(* -------------------------- admin commands ---------------------------- *)
\* addadmin without its authorization check
addadmin_noauth(caller, arg, replyTo) ==
    /\ UNCHANGED <<ADMIN_IDS, users, groups, pending>>
    /\ IF arg.k = "bad"
       THEN /\ last' = Reply("addadmin", caller, "invalid_id")
            /\ UNCHANGED <<ADMINS, adminsFile>>
       ELSE IF arg.k = "none" /\ replyTo = NoReplyTo
       THEN /\ last' = Reply("addadmin", caller, "usage")
            /\ UNCHANGED <<ADMINS, adminsFile>>
       ELSE LET target == IF arg.k = "num" THEN arg.v ELSE replyTo IN
            IF target \in ADMINS
            THEN /\ last' = Reply("addadmin", caller, "already_admin")
                 /\ UNCHANGED <<ADMINS, adminsFile>>
            ELSE /\ ADMINS' = ADMINS \cup {target}
                 /\ adminsFile' = persist_admins(ADMINS')
                 /\ last' = Reply("addadmin", caller, "added")

addadmin(caller, arg, replyTo) ==
    /\ UNCHANGED <<ADMIN_IDS, users, groups, pending>>
    /\ IF ~is_admin(caller)
       THEN /\ last' = Reply("addadmin", caller, "not_authorized")
            /\ UNCHANGED <<ADMINS, adminsFile>>
       ELSE IF arg.k = "bad"
       THEN /\ last' = Reply("addadmin", caller, "invalid_id")
            /\ UNCHANGED <<ADMINS, adminsFile>>
       ELSE IF arg.k = "none" /\ replyTo = NoReplyTo
       THEN /\ last' = Reply("addadmin", caller, "usage")
            /\ UNCHANGED <<ADMINS, adminsFile>>
       ELSE LET target == IF arg.k = "num" THEN arg.v ELSE replyTo IN
            IF target \in ADMINS
            THEN /\ last' = Reply("addadmin", caller, "already_admin")
                 /\ UNCHANGED <<ADMINS, adminsFile>>
            ELSE /\ ADMINS' = ADMINS \cup {target}
                 /\ adminsFile' = persist_admins(ADMINS')
                 /\ last' = Reply("addadmin", caller, "added")

listadmins(caller) ==
    /\ UNCHANGED <<ADMIN_IDS, ADMINS, adminsFile, users, groups, pending>>
    /\ IF ~is_admin(caller)
       THEN last' = Reply("listadmins", caller, "not_authorized")
       ELSE last' = ReplyOut("listadmins", caller, "admins", sorted(ADMINS))

deladmin(caller, arg) ==
    /\ UNCHANGED <<ADMIN_IDS, users, groups, pending>>
    /\ IF ~is_admin(caller)
       THEN /\ last' = Reply("deladmin", caller, "not_authorized")
            /\ UNCHANGED <<ADMINS, adminsFile>>
       ELSE IF arg.k = "none"
       THEN /\ last' = Reply("deladmin", caller, "usage")
            /\ UNCHANGED <<ADMINS, adminsFile>>
       ELSE IF arg.k = "bad"
       THEN /\ last' = Reply("deladmin", caller, "invalid_id")
            /\ UNCHANGED <<ADMINS, adminsFile>>
       ELSE LET target == arg.v IN
            IF in_base(target)
            THEN /\ last' = Reply("deladmin", caller, "cannot_remove_owner")
                 /\ UNCHANGED <<ADMINS, adminsFile>>
            ELSE IF target \notin ADMINS
            THEN /\ last' = Reply("deladmin", caller, "not_an_admin")
                 /\ UNCHANGED <<ADMINS, adminsFile>>
            ELSE /\ ADMINS' = ADMINS \ {target}
                 /\ adminsFile' = persist_admins(ADMINS')
                 /\ last' = Reply("deladmin", caller, "removed")

(* ---------------------------- user system ----------------------------- *)
\* position of key uid in the store, 0 if absent (uid_s in users)
KeyIndex(us, uid) == IF \E i \in 1..Len(us) : us[i].uid = uid
                     THEN CHOOSE i \in 1..Len(us) : us[i].uid = uid
                     ELSE 0

HasUser(us, uid) == KeyIndex(us, uid) # 0

\* add_user(uid, username, name): the store file written by the call
add_user(file, uid, username, name, now, ok) ==
    LET us == load_json(file, ok, <<>>)
        i == KeyIndex(us, uid)
    IN IF i = 0
       THEN Append(us, [uid |-> uid, username |-> username, full_name |-> name,
                        quiz_score |-> 0, prayer_requests |-> <<>>,
                        first_seen |-> now])
       ELSE [us EXCEPT ![i].username = username, ![i].full_name = name]

\* get_users_list(): the keys of the store, in file order
get_users_list(file, ok) ==
    LET us == load_json(file, ok, <<>>) IN [i \in 1..Len(us) |-> us[i].uid]

load_saved_groups(file, ok) == load_json(file, ok, <<>>)

\* save_group(gid): the groups file after the call
save_group(file, gid, ok) ==
    LET gs == load_saved_groups(file, ok)
    IN IF gid \notin Range(gs) THEN Append(gs, gid) ELSE file

\* f"{first_name} {last_name}".strip(), as the list of its words
StartName(p) == IF p.last_name = "" THEN <<p.first_name>>
                ELSE <<p.first_name, p.last_name>>

\* str.upper() on the answer letters
Upper(s) == CASE s = "a" -> "A" [] s = "b" -> "B" [] s = "c" -> "C"
              [] s = "d" -> "D" [] OTHER -> s

\* the groups file after the "if in a group, save group id" step
SaveChat(file, chat, ok) == IF chat \in GroupChats THEN save_group(file, chat, ok) ELSE file

start(u, p, chat, t, ok1, ok2) ==
    /\ users' = add_user(users, u, p.username, StartName(p), t, ok1)
    /\ groups' = SaveChat(groups, chat, ok2)
    /\ last' = Reply("start", u, "welcome")
    /\ UNCHANGED <<ADMIN_IDS, ADMINS, adminsFile, pending>>

cmd(u) ==
    /\ last' = Reply("cmd", u, "commands")
    /\ UNCHANGED <<ADMIN_IDS, ADMINS, adminsFile, users, groups, pending>>

\* prayer registering the sender before it looks at its arguments
prayerResult_early(file, u, p, args, t, ok1, ok2) ==
    LET saved == add_user(file, u, p.username, <<p.first_name>>, t, ok1)
        us == load_json(saved, ok2, <<>>)
        i == KeyIndex(us, u)
    IN IF args = <<>>
       THEN [users |-> saved, reply |-> "prayer_usage"]
       ELSE IF i = 0
       THEN [users |-> saved, reply |-> "exception"]
       ELSE [users |-> [us EXCEPT ![i].prayer_requests =
                           Append(@, [text |-> args, time |-> t])],
             reply |-> "prayer_saved"]

\* prayer(update, context): the store file and the reply; args is the list of
\* words after the command, t the time of the request
prayerResult(file, u, p, args, t, ok1, ok2) ==
    IF args = <<>>
    THEN [users |-> file, reply |-> "prayer_usage"]
    ELSE LET saved == add_user(file, u, p.username, <<p.first_name>>, t, ok1)
             us == load_json(saved, ok2, <<>>)
             i == KeyIndex(us, u)
         IN IF i = 0
            THEN [users |-> saved, reply |-> "exception"]   \* KeyError: users[uid]
            ELSE [users |-> [us EXCEPT ![i].prayer_requests =
                                Append(@, [text |-> args, time |-> t])],
                  reply |-> "prayer_saved"]

\* answer(update, context): the store file and the reply
answerResult(file, pend, u, args, ok) ==
    IF pend = None
    THEN [users |-> file, reply |-> "start_quiz_first"]
    ELSE IF args = <<>>
    THEN [users |-> file, reply |-> "answer_usage"]
    ELSE LET user_ans == Upper(args[1])
             correct == Upper(pend)
             us == load_json(file, ok, <<>>)
             i == KeyIndex(us, u)
         IN IF user_ans = correct
            THEN IF i = 0
                 THEN [users |-> file, reply |-> "exception"]   \* KeyError: users[uid]
                 ELSE [users |-> [us EXCEPT ![i].quiz_score = @ + 1],
                       reply |-> "correct"]
            ELSE [users |-> file, reply |-> "wrong"]

\* the program's counters are unbounded; the model stops at the bounds
WithinBounds(us) ==
    \A i \in 1..Len(us) : /\ us[i].quiz_score <= MaxScore
                          /\ Len(us[i].prayer_requests) <= MaxPrayers

prayer(u, p, args, t, ok1, ok2) ==
    \E r \in {prayerResult(users, u, p, args, t, ok1, ok2)} :
    /\ WithinBounds(r.users)
    /\ users' = r.users
    /\ last' = Reply("prayer", u, r.reply)
    /\ UNCHANGED <<ADMIN_IDS, ADMINS, adminsFile, groups, pending>>

\* quiz(update, context): q is the index random.choice picks
quizResult(pend, u, q, ok) ==
    LET data == load_json(QUIZZES, ok, <<>>) IN
    IF data = <<>>
    THEN [pending |-> pend, reply |-> "no_quiz"]
    ELSE [pending |-> [pend EXCEPT ![u] = data[q]], reply |-> "question"]

quiz(u, q, ok) ==
    \E r \in {quizResult(pending, u, q, ok)} :
    /\ pending' = r.pending
    /\ last' = Reply("quiz", u, r.reply)
    /\ UNCHANGED <<ADMIN_IDS, ADMINS, adminsFile, users, groups>>

answer(u, args, ok) ==
    \E r \in {answerResult(users, pending[u], u, args, ok)} :
    /\ WithinBounds(r.users)
    /\ users' = r.users
    /\ last' = Reply("answer", u, r.reply)
    /\ UNCHANGED <<ADMIN_IDS, ADMINS, adminsFile, groups, pending>>

(* ------------------------------ ranking ------------------------------- *)
TopLimit == 10

\* d.get("username") or d.get("full_name") or "Unknown", as a list of words
DisplayName(d) == IF d.username # None THEN <<d.username>>
                  ELSE IF d.full_name # <<>> THEN d.full_name
                  ELSE <<"Unknown">>

\* x placed behind every entry whose score is >= its own: one step of a
\* stable sort by score, descending (list.sort(key=score, reverse=True))
InsertByScore(r, x) ==
    LET k == Cardinality({i \in 1..Len(r) : r[i].score >= x.score})
    IN SubSeq(r, 1, k) \o <<x>> \o SubSeq(r, k + 1, Len(r))

RECURSIVE SortByScore(_)
SortByScore(r) == IF r = <<>> THEN <<>>
                  ELSE InsertByScore(SortByScore(SubSeq(r, 1, Len(r) - 1)), r[Len(r)])

\* the rows of the TOP PLAYERS message for a loaded store; uid is the key the
\* row was built from (the message itself shows name and score only)
Ranking(us) ==
    LET rank == [i \in 1..Len(us) |->
                    [uid |-> us[i].uid, name |-> DisplayName(us[i]),
                     score |-> us[i].quiz_score]]
        s == SortByScore(rank)
    IN SubSeq(s, 1, IF Len(s) < TopLimit THEN Len(s) ELSE TopLimit)

topsResult(file, ok) ==
    LET us == load_json(file, ok, <<>>) IN
    IF us = <<>> THEN [reply |-> "no_data", out |-> <<>>]
    ELSE [reply |-> "top_players", out |-> Ranking(us)]

tops(u, ok) ==
    \E r \in {topsResult(users, ok)} :
    /\ last' = ReplyOut("tops", u, r.reply, r.out)
    /\ UNCHANGED <<ADMIN_IDS, ADMINS, adminsFile, users, groups, pending>>

(* ----------------------- read-only commands --------------------------- *)
\* contents of data/verses.json and data/events.json
VERSES == <<"v1">>
EVENTS == <<"e1">>

verseResult(ok) == IF load_json(VERSES, ok, <<>>) = <<>> THEN "no_verses" ELSE "verse"
eventsResult(ok) == IF load_json(EVENTS, ok, <<>>) = <<>> THEN "no_events" ELSE "events"

verse(u, ok) ==
    /\ last' = Reply("verse", u, verseResult(ok))
    /\ UNCHANGED <<ADMIN_IDS, ADMINS, adminsFile, users, groups, pending>>

events(u, ok) ==
    /\ last' = Reply("events", u, eventsResult(ok))
    /\ UNCHANGED <<ADMIN_IDS, ADMINS, adminsFile, users, groups, pending>>

daily(u) ==
    /\ last' = Reply("daily", u, "inspiration")
    /\ UNCHANGED <<ADMIN_IDS, ADMINS, adminsFile, users, groups, pending>>

myid(u) ==
    /\ last' = Reply("myid", u, "your_id")
    /\ UNCHANGED <<ADMIN_IDS, ADMINS, adminsFile, users, groups, pending>>

chatid(u) ==
    /\ last' = Reply("chatid", u, "chat_id")
    /\ UNCHANGED <<ADMIN_IDS, ADMINS, adminsFile, users, groups, pending>>

(* ----------------------------- broadcast ------------------------------ *)
RECURSIVE Dedup(_)
\* list(dict.fromkeys(s)): first occurrences, in order
Dedup(s) == IF s = <<>> THEN <<>>
            ELSE LET d == Dedup(SubSeq(s, 1, Len(s) - 1))
                 IN IF s[Len(s)] \in Range(d) THEN d ELSE Append(d, s[Len(s)])

\* the loop over the targets: one send per target; the sends to the chats in
\* down raise.  Returns the sends and (success, failed).
NothingSent == [sends |-> <<>>, success |-> 0, failed |-> 0]

RECURSIVE SendLoop(_, _, _, _)
\* for gid in groups, from the i-th target on: try send, success += 1;
\* except: failed += 1
SendLoop(targets, down, i, acc) ==
    IF i > Len(targets) THEN acc
    ELSE IF targets[i] \notin down
         THEN SendLoop(targets, down, i + 1,
                       [sends |-> Append(acc.sends, [chat |-> targets[i], delivered |-> TRUE]),
                        success |-> acc.success + 1,
                        failed |-> acc.failed])
         ELSE SendLoop(targets, down, i + 1,
                       [sends |-> Append(acc.sends, [chat |-> targets[i], delivered |-> FALSE]),
                        success |-> acc.success,
                        failed |-> acc.failed + 1])

\* the loop without its try/except: the first send that raises ends it
SendAll_raise(targets, down) ==
    LET raised == {i \in 1..Len(targets) : targets[i] \in down}
        n == IF raised = {} THEN Len(targets) ELSE Min(raised)
    IN SendLoop(SubSeq(targets, 1, n), down, 1, NothingSent)

SendAll(targets, down) == SendLoop(targets, down, 1, NothingSent)

broadcast_to_groups(file, ok, down) ==
    SendAll(Dedup(GROUP_IDS \o load_saved_groups(file, ok)), down)

broadcast_to_users(file, ok, down) ==
    SendAll(get_users_list(file, ok), down)

BroadcastReply(op, u, b) ==
    ReplyOut(op, u, "broadcast_sent", <<b.sends, <<b.success, b.failed>>>>)

\* broadcast_cmd without its authorization check
broadcast_cmd_noauth(u, args, ok, down) ==
    /\ UNCHANGED <<ADMIN_IDS, ADMINS, adminsFile, users, groups, pending>>
    /\ IF args = <<>> THEN last' = Reply("broadcast", u, "broadcast_usage")
       ELSE last' = ReplyOut("broadcast", u, "broadcast_sent",
                             <<broadcast_to_groups(groups, ok, down).sends,
                               <<broadcast_to_groups(groups, ok, down).success,
                                 broadcast_to_groups(groups, ok, down).failed>>>>)

broadcast_cmd(u, args, ok, down) ==
    /\ UNCHANGED <<ADMIN_IDS, ADMINS, adminsFile, users, groups, pending>>
    /\ IF ~is_admin(u) THEN last' = Reply("broadcast", u, "not_authorized")
       ELSE IF args = <<>> THEN last' = Reply("broadcast", u, "broadcast_usage")
       ELSE last' = BroadcastReply("broadcast", u, broadcast_to_groups(groups, ok, down))

broadcast_users_cmd(u, args, ok, down) ==
    /\ UNCHANGED <<ADMIN_IDS, ADMINS, adminsFile, users, groups, pending>>
    /\ IF ~is_admin(u) THEN last' = Reply("broadcast_users", u, "not_authorized")
       ELSE IF args = <<>> THEN last' = Reply("broadcast_users", u, "broadcast_usage")
       ELSE last' = BroadcastReply("broadcast_users", u, broadcast_to_users(users, ok, down))

(* ------------------------ plain-text listener ------------------------- *)
\* str.lower() on the words used here
Lower(s) == CASE s = "A" -> "a" [] s = "B" -> "b" [] s = "C" -> "c"
              [] s = "D" -> "d" [] OTHER -> s

\* message texts, as the list of their words (update.message.text.strip().split());
\* <<>> is an update without text
Texts == { <<>>, <<"prayer", "p">>, <<"verse">>, <<"events">>, <<"quiz">>,
           <<"answer", "a">>, <<"B">>, <<"answer">>, <<"tops">>, <<"daily">>,
           <<"broadcast:">>, <<"broadcast:", "m">>, <<"broadcast", "m">>,
           <<"hello">> }

Letters == {"a", "b", "c", "d"}

\* what text_listener does after "save user and optionally group": us and gs
\* are the files as add_user and save_group left them
Dispatch(us, gs, pend, u, p, text, t, q, ok3, ok4, down) ==
    LET tokens == [i \in 1..Len(text) |-> Lower(text[i])]
        same == [users |-> us, pending |-> pend, reply |-> "none", out |-> <<>>]
    IN  IF tokens[1] \in {"prayer", "pray"} /\ Len(tokens) >= 2
        THEN LET r == prayerResult(us, u, p, Tail(text), t, ok3, ok4)
             IN [same EXCEPT !.users = r.users, !.reply = r.reply]
        ELSE IF tokens \in {<<"verse">>, <<"v">>}
        THEN [same EXCEPT !.reply = verseResult(ok3)]
        ELSE IF tokens = <<"events">>
        THEN [same EXCEPT !.reply = eventsResult(ok3)]
        ELSE IF tokens = <<"quiz">>
        THEN LET r == quizResult(pend, u, q, ok3)
             IN [same EXCEPT !.pending = r.pending, !.reply = r.reply]
        ELSE IF tokens[1] = "answer" /\ Len(tokens) >= 2
        THEN LET r == answerResult(us, pend[u], u, <<tokens[2]>>, ok3)
             IN [same EXCEPT !.users = r.users, !.reply = r.reply]
        ELSE IF tokens[1] \in Letters
        THEN LET r == answerResult(us, pend[u], u, <<Upper(tokens[1])>>, ok3)
             IN [same EXCEPT !.users = r.users, !.reply = r.reply]
        ELSE IF tokens \in {<<"tops">>, <<"ranking">>}
        THEN LET r == topsResult(us, ok3)
             IN [same EXCEPT !.reply = r.reply, !.out = r.out]
        ELSE IF tokens \in {<<"daily">>, <<"daily", "inspiration">>, <<"inspire">>}
        THEN [same EXCEPT !.reply = "inspiration"]
        ELSE IF tokens[1] = "broadcast:" \/ (tokens[1] = "broadcast" /\ Len(tokens) >= 2)
        THEN IF ~is_admin(u)
             THEN [same EXCEPT !.reply = "not_authorized_quick"]
             ELSE IF Tail(text) = <<>>
             THEN [same EXCEPT !.reply = "broadcast_usage"]
             ELSE LET b == broadcast_to_groups(gs, ok3, down)
                  IN [same EXCEPT !.reply = "broadcast_sent",
                                  !.out = <<b.sends, <<b.success, b.failed>>>>]
        ELSE same

text_listener(u, p, chat, text, t, q, ok1, ok2, ok3, ok4, down) ==
    /\ UNCHANGED <<ADMIN_IDS, ADMINS, adminsFile>>
    /\ IF text = <<>>
       THEN /\ last' = Reply("text", u, "none")
            /\ UNCHANGED <<users, groups, pending>>
       ELSE \E us \in {add_user(users, u, p.username, <<p.first_name>>, t, ok1)},
               gs \in {SaveChat(groups, chat, ok2)} :
            \E r \in {Dispatch(us, gs, pending, u, p, text, t, q, ok3, ok4, down)} :
               /\ WithinBounds(r.users)
               /\ users' = r.users
               /\ groups' = gs
               /\ pending' = r.pending
               /\ last' = ReplyOut("text", u, r.reply, r.out)

(* ------------------------------- Next --------------------------------- *)
QuizIdx == 1..Len(QUIZZES)
ArgLists == {<<>>} \cup {<<a>> : a \in AnswerArgs}
PrayerArgs == {<<>>} \cup {<<w>> : w \in PrayerTexts}
MsgArgs == {<<>>, <<"m">>}

\* the outcomes of the read of a file: one outcome where no read happens
Reads(happens) == IF happens THEN BOOLEAN ELSE {TRUE}
\* the chats among the targets whose send raises
Downs(targets, happens) == IF happens THEN SUBSET Range(targets) ELSE {{}}

\* which reads and sends a text reaches in text_listener
TextReads3(x) == x \in {<<"prayer", "p">>, <<"verse">>, <<"events">>, <<"quiz">>,
                        <<"answer", "a">>, <<"B">>, <<"tops">>, <<"broadcast", "m">>,
                        <<"broadcast:", "m">>}
TextReads4(x) == x = <<"prayer", "p">>
TextSends(x) == x \in {<<"broadcast", "m">>, <<"broadcast:", "m">>}

\* the updates of the senders in S, per handler
AdminStep(S) ==
    \/ \E c \in S, a \in IdArgs :
          \E r \in (IF a = NoArg THEN AdminTargets \cup {NoReplyTo} ELSE {NoReplyTo}) :
             addadmin(c, a, r)
    \/ \E c \in S : listadmins(c)
    \/ \E c \in S, a \in IdArgs : deladmin(c, a)

\* /start from the senders in S in the chats in C
StartStep(S, C) ==
    \E u \in S, p \in Profiles, c \in C, t \in Times, ok1 \in BOOLEAN :
       \E ok2 \in Reads(c \in GroupChats) : start(u, p, c, t, ok1, ok2)

StoreStep(S) ==
    \/ StartStep(S, Chats)
    \/ \E u \in S, p \in Profiles, a \in PrayerArgs, t \in Times :
          \E ok1, ok2 \in Reads(a # <<>>) : prayer(u, p, a, t, ok1, ok2)
    \/ \E u \in S, q \in QuizIdx, ok \in BOOLEAN : quiz(u, q, ok)
    \/ \E u \in S, a \in ArgLists : \E ok \in Reads(a # <<>>) : answer(u, a, ok)
    \/ \E u \in S, ok \in BOOLEAN : tops(u, ok)

\* the texts that start with the quick-broadcast trigger, and one that does not
BroadcastTexts == {<<"broadcast:">>, <<"broadcast:", "m">>, <<"broadcast", "m">>,
                   <<"hello">>}

\* the plain-text updates of the senders in S whose text is in X
TextStepOf(S, X) ==
    \E u \in S, p \in Profiles, c \in Chats, x \in X, t \in Times, q \in QuizIdx :
    \E ok1 \in Reads(x # <<>>), ok2 \in Reads(x # <<>> /\ c \in GroupChats),
       ok3 \in Reads(TextReads3(x)), ok4 \in Reads(TextReads4(x)),
       down \in Downs(GROUP_IDS, TextSends(x)) :
       text_listener(u, p, c, x, t, q, ok1, ok2, ok3, ok4, down)

TextStep(S) ==
    \E u \in S, p \in Profiles, c \in Chats, x \in Texts, t \in Times, q \in QuizIdx :
    \E ok1 \in Reads(x # <<>>), ok2 \in Reads(x # <<>> /\ c \in GroupChats),
       ok3 \in Reads(TextReads3(x)), ok4 \in Reads(TextReads4(x)),
       down \in Downs(GROUP_IDS, TextSends(x)) :
       text_listener(u, p, c, x, t, q, ok1, ok2, ok3, ok4, down)

ReadStep(S) ==
    \/ \E u \in S : cmd(u)
    \/ \E u \in S, ok \in BOOLEAN : verse(u, ok)
    \/ \E u \in S, ok \in BOOLEAN : events(u, ok)
    \/ \E u \in S : daily(u)
    \/ \E u \in S : myid(u)
    \/ \E u \in S : chatid(u)

BroadcastStep(S) ==
    \/ \E u \in S, a \in MsgArgs :
          \E ok \in Reads(a # <<>>), down \in Downs(GROUP_IDS \o groups, a # <<>>) :
             broadcast_cmd(u, a, ok, down)
    \/ \E u \in S, a \in MsgArgs :
          \E ok \in Reads(a # <<>>), down \in Downs(get_users_list(users, TRUE), a # <<>>) :
             broadcast_users_cmd(u, a, ok, down)

NextAdmin == AdminStep(AdminTargets)
NextStore == StoreStep(Uids)
NextCmd == AdminStep(Uids) \/ BroadcastStep(Uids) \/ StoreStep({2})
NextText == TextStep({2})
NextSend == StartStep(Uids, AllChats) \/ BroadcastStep(Uids)
NextBroadcast == AdminStep(Uids) \/ BroadcastStep(Uids) \/ TextStepOf({2}, BroadcastTexts)
Next == AdminStep(Uids) \/ StoreStep(Uids) \/ TextStep(Uids) \/ ReadStep(Uids)
           \/ BroadcastStep(Uids)

\* the admin commands alone, any of the ids sending them
SpecAdmin == Init /\ [][NextAdmin]_vars
\* the commands on the user store alone
SpecStore == Init /\ [][NextStore]_vars
\* the commands that can reject, with one user writing to the store
SpecCmd == Init /\ [][NextCmd]_vars
\* the plain-text listener, one user sending
SpecText == Init /\ [][NextText]_vars
\* the three ways to broadcast, while the admin set changes
SpecBroadcast == Init /\ [][NextBroadcast]_vars
\* the two broadcasts over growing lists of groups and users
SpecSend == Init /\ [][NextSend]_vars
\* every handler
Spec == Init /\ [][Next]_vars

(* ------------------------------ claims -------------------------------- *)
AdminCommands == {"addadmin", "deladmin"}

\* C3: the admin set and the admins file change only in an addadmin or
\* deladmin step whose caller is in ADMINS when the call is made; a call by a
\* non-member is answered "not authorized" and changes neither.
C3_AdminSetChangesAdminOnly ==
    [][ /\ (ADMINS' # ADMINS \/ adminsFile' # adminsFile)
             => (last'.op \in AdminCommands /\ last'.caller \in ADMINS)
        /\ (last'.op \in AdminCommands /\ last'.caller \notin ADMINS)
             => (last'.reply = "not_authorized" /\ UNCHANGED <<ADMINS, adminsFile>>)
      ]_vars

\* C3 witness: a non-member has just called addadmin or deladmin and was refused
C3_Witness ==
    /\ last.op \in AdminCommands
    /\ last.caller \notin ADMINS
    /\ last.reply = "not_authorized"

\* the replies that report an error or a rejection
ErrorReplies == {"not_authorized", "invalid_id", "usage", "already_admin",
                 "cannot_remove_owner", "not_an_admin", "broadcast_usage",
                 "start_quiz_first", "answer_usage", "wrong", "prayer_usage"}
\* the slash commands that can reply with one of them
RejectingCommands == {"addadmin", "deladmin", "listadmins", "broadcast",
                      "broadcast_users", "answer", "prayer"}

\* C4: a command that ends in an error or rejection reply leaves ADMINS, the
\* admins file, the user store and every pending quiz answer as they were.
C4_ErrorsChangeNothing ==
    [][ (last'.op \in RejectingCommands /\ last'.reply \in ErrorReplies)
            => UNCHANGED <<ADMINS, adminsFile, users, pending>> ]_vars

\* C4 witness: a registered user with a pending quiz has just answered wrongly
C4_Witness ==
    /\ last.op = "answer"
    /\ last.reply = "wrong"
    /\ HasUser(users, last.caller)
    /\ pending[last.caller] # None

\* C5: a user id that has a record in the store has one in every later state,
\* also when a read of the store file fails.
C5_NeverDeleted ==
    [][ \A u \in Uids : HasUser(users, u) => HasUser(users', u) ]_vars

\* C6: the ranking shown by tops is ordered by descending score and, among
\* equal scores, by ascending user id.
C6_RankingOrder ==
    last.reply = "top_players" =>
        \A i, j \in 1..Len(last.out) :
            i < j => \/ last.out[i].score > last.out[j].score
                     \/ /\ last.out[i].score = last.out[j].score
                        /\ last.out[i].uid < last.out[j].uid

\* C10: every id listed in config.ADMIN_IDS is a member of ADMINS.
C10_OwnersStayAdmins ==
    \A i \in 1..Len(ADMIN_IDS) : PyInt(ADMIN_IDS[i]) \in ADMINS

\* the handlers that can send a broadcast
BroadcastOps == {"broadcast", "broadcast_users", "text"}

\* C11: an update makes the bot send a broadcast to groups or users only if
\* its sender is in ADMINS when the update is handled; for a non-member the
\* reply carries no send.
C11_BroadcastAdminOnly ==
    [][ /\ last'.reply = "broadcast_sent"
             => (last'.op \in BroadcastOps /\ last'.caller \in ADMINS)
        /\ last'.caller \notin ADMINS => last'.out = <<>>
      ]_vars

\* C11 witness: a non-member has just sent a plain-text broadcast trigger and
\* was refused without any send
C11_Witness ==
    /\ last.op = "text"
    /\ last.reply = "not_authorized_quick"
    /\ last.caller \notin ADMINS
    /\ last.out = <<>>

\* the ids config.ADMIN_IDS lists
ConfigIds == {PyInt(ADMIN_IDS[i]) : i \in 1..Len(ADMIN_IDS)}

\* C15: after an addadmin or deladmin that changes ADMINS, the admins file
\* holds exactly ADMINS minus the config-defined ids, and load_admins() on that
\* file gives back ADMINS.
C15_PersistRoundTrip ==
    [][ ADMINS' # ADMINS =>
          /\ Range(adminsFile') = ADMINS' \ ConfigIds
          /\ load_admins(ADMIN_IDS, adminsFile', TRUE) = ADMINS' ]_vars

RECURSIVE FirstOccurrences(_, _)
\* the distinct elements of s that are not in seen, in order of first occurrence
FirstOccurrences(s, seen) ==
    IF s = <<>> THEN <<>>
    ELSE IF Head(s) \in seen THEN FirstOccurrences(Tail(s), seen)
         ELSE <<Head(s)>> \o FirstOccurrences(Tail(s), seen \cup {Head(s)})

\* the chats of a list of sends, and how many of them raised
SentTo(sends) == [i \in 1..Len(sends) |-> sends[i].chat]
Raised(sends) == Cardinality({i \in 1..Len(sends) : ~sends[i].delivered})

\* one send per target, in order, all of them counted
Accounted(out, targets) ==
    /\ SentTo(out[1]) = targets
    /\ out[2][1] + out[2][2] = Len(targets)
    /\ out[2][2] = Raised(out[1])

\* C16: a broadcast to groups attempts exactly one send to each distinct id of
\* config.GROUP_IDS followed by the saved groups (as load_saved_groups() reads
\* them), in that order, goes on past sends that raise, and returns
\* (success, failed) with success + failed the number of distinct targets and
\* failed the number of sends that raised; a broadcast to users does the same
\* over the ids of the user store (as get_users_list() reads them).
C16_BroadcastAccounting ==
    [][ /\ (last'.op = "broadcast" /\ last'.reply = "broadcast_sent") =>
             \E ok \in BOOLEAN :
                Accounted(last'.out,
                          FirstOccurrences(GROUP_IDS \o load_saved_groups(groups, ok), {}))
        /\ (last'.op = "broadcast_users" /\ last'.reply = "broadcast_sent") =>
             \E ok \in BOOLEAN :
                Accounted(last'.out, [i \in 1..Len(load_json(users, ok, <<>>)) |->
                                       load_json(users, ok, <<>>)[i].uid])
      ]_vars

\* C16 witness: a broadcast to groups went to a config group listed again among
\* the saved groups and to a saved group that config does not list, and it
\* went on after a send that raised
C16_Witness ==
    /\ last.op = "broadcast"
    /\ last.reply = "broadcast_sent"
    /\ Len(last.out[1]) = 3
    /\ Range(groups) = {10, 11}
    /\ ~last.out[1][1].delivered
    /\ last.out[1][3].delivered

\* the record of uid in the store (uid has one)
Record(us, uid) == us[KeyIndex(us, uid)]

\* C12: add_user on an id without a record creates one with quiz_score 0 and
\* no prayer requests; on an id with a record it leaves that record's
\* quiz_score, prayer_requests and first_seen, and every other user's record,
\* as they were.  Stated over /start, which calls add_user and nothing else on
\* the store.
C12_LazyCreation ==
    [][ last'.op = "start" =>
          /\ HasUser(users', last'.caller)
          /\ ~HasUser(users, last'.caller) =>
                 /\ Record(users', last'.caller).quiz_score = 0
                 /\ Record(users', last'.caller).prayer_requests = <<>>
          /\ HasUser(users, last'.caller) =>
                 /\ Record(users', last'.caller).quiz_score
                       = Record(users, last'.caller).quiz_score
                 /\ Record(users', last'.caller).prayer_requests
                       = Record(users, last'.caller).prayer_requests
                 /\ Record(users', last'.caller).first_seen
                       = Record(users, last'.caller).first_seen
          /\ \A v \in Uids \ {last'.caller} :
                 HasUser(users, v) =>
                    /\ HasUser(users', v)
                    /\ Record(users', v) = Record(users, v) ]_vars

\* whether the update just handled is op from u answered with reply
Handled(op, u, reply) == last'.op = op /\ last'.caller = u /\ last'.reply = reply

\* C13: handlers run their load-modify-save sequences one after the other (each
\* action is one handler up to its first await), so, step by step, a user
\* registered before and after an update has quiz_score raised by exactly the
\* number of correct answers the update processed and keeps every prayer
\* reported saved, plus the one the update reports saved.
C13_NoLostUpdates ==
    [][ \A u \in Uids :
          (HasUser(users, u) /\ HasUser(users', u)) =>
             /\ Record(users', u).quiz_score
                   = Record(users, u).quiz_score
                     + (IF Handled("answer", u, "correct") THEN 1 ELSE 0)
             /\ Len(Record(users', u).prayer_requests)
                   = Len(Record(users, u).prayer_requests)
                     + (IF Handled("prayer", u, "prayer_saved") THEN 1 ELSE 0)
             /\ SubSeq(Record(users', u).prayer_requests, 1,
                       Len(Record(users, u).prayer_requests))
                   = Record(users, u).prayer_requests ]_vars

\* C14: a posed quiz is scored at most once: when a user's correct answer was
\* the update handled last, so that no quiz command of that user lies between,
\* a further answer of that user does not raise quiz_score again.
C14_ScoredOnce ==
    [][ \A u \in Uids :
          ( /\ last.op = "answer" /\ last.caller = u /\ last.reply = "correct"
            /\ last'.op = "answer" /\ last'.caller = u
            /\ HasUser(users, u) /\ HasUser(users', u) )
          => Record(users', u).quiz_score <= Record(users, u).quiz_score ]_vars

====
